---- MODULE Spec2Model ----
(***************************************************************************)
(* Model of sqlite-to-mongodb.py: the migration of the sqlite3 tables      *)
(* repo / file / comit into documents of the MongoDB collection            *)
(* main_db.contracts, with the optional GitHub license check.              *)
(*                                                                         *)
(* One behaviour is a sequence of runs of the script over one unchanged    *)
(* sqlite3 file against one MongoDB collection.  The variables are the     *)
(* script's globals, the position of the script (pc), the two stores and   *)
(* a few history variables (marked "history") that record what the run has *)
(* done so far.  Where two processes of the script run at once, the        *)
(* variables hold the state of the process that takes the next step and    *)
(* peer holds the state of the other one.                                  *)
(***************************************************************************)
EXTENDS Integers, Sequences, FiniteSets, TLC

\* ------------------------------------------------------------------ bounds
NumRepos    == 2   \* rows of table repo
MaxFiles    == 2   \* rows of table file
MaxVersions == 2   \* rows of table comit per file
MaxRuns     == 2   \* successive runs of the script
Max403      == 1   \* consecutive 403 answers to one logical fetch

\* ------------------------------------------------------- program constants
DefaultRetryAfter == 60   \* res.headers.get('Retry-After', 60)
RecursionLimit == 1000    \* sys.getrecursionlimit(), which the script leaves as it is

\* ------------------------------------------------------------ source store
Repos   == 1..NumRepos
FileIds == 1..MaxFiles
Times   == 1..MaxVersions

\* A path is the sequence of its pieces; only its ending matters to the script.
\* No two files have the same path: the path of file f lies in directory f.
PathsOf(f) == { <<"contracts", f, "Token", ".sol">>,
                <<"contracts", f, "Foo", ".sol", ".json">> }
Paths == UNION { PathsOf(f) : f \in FileIds }
Shas  == { "abc123", "def456" }

\* The comit rows of one file in table order, each given by its created time.
\* Only the order of the times matters to the script, so the times of a file are
\* taken to be 1..k for some k.
ComitSeqs ==
    { c \in UNION { [1..n -> Times] : n \in 0..MaxVersions } :
        \A x \in Times : (\E i \in DOMAIN c : c[i] = x) =>
                          \A y \in 1..x : \E j \in DOMAIN c : c[j] = y }

FileRows == [repo_id : Repos, path : Paths, sha : Shas, comits : ComitSeqs]

\* row[2] of a repo row
full_name(r) == <<"owner", r>>

\* ------------------------------------------------------------- GitHub API
licenses == {"apache-2.0", "agpl-3.0", "bsd-2-clause", "bsd-3-clause", "bsl-1.0",
             "cc0-1.0", "epl-2.0", "gpl-2.0", "gpl-3.0", "lgpl-2.1", "mit",
             "mpl-2.0", "unlicense"}

\* What res.json()['license'] can be: null, or an object with a key.
Null        == "null"
ApiLicenses == {Null, "mit", "gpl-3.0", "proprietary"}
\* A header is <<>> when absent and <<v>> when present with value v.
ResetTimes  == {<<>>, <<0>>, <<3>>}    \* X-RateLimit-Reset
RetryAfters == {<<>>, <<5>>}           \* Retry-After
\* time.time() is a float: the model's clock counts ticks of 1/TicksPerSecond s.
TicksPerSecond == 2
Clock       == {TicksPerSecond, TicksPerSecond + 1}   \* time.time(): 1 s, 1.5 s

NoRes  == [status |-> 0]
NoDoc  == [versions |-> <<>>]          \* document = {}
NoUrl  == <<>>

VARIABLES
    file,            \* table file (with its comit rows), unchanged by the script
    checkLicenses,   \* args.checkLicenses
    run,             \* number of the current run
    pc,              \* position of the script
    ri,              \* rows of repocursor consumed so far
    row,             \* current repo row (its repo_id), 0 before the first
    files,           \* dbcursor.fetchall() of the current repository (file ids)
    fi,              \* files of that list consumed so far
    document,        \* global document
    vrows,           \* comit rows fetched for the current file, not yet appended
    vid,             \* vid of the version loop
    license,         \* global license
    repos_handled, files_handled, commits_handled, duplicate_files, finished,
    http_requests,
    url,             \* argument of the current call of get
    res,             \* response held by get / handle_rate_limit_error
    ret,             \* value returned by get to check_license
    t,               \* seconds handle_rate_limit_error sleeps
    mongo,           \* mongo_collection: the documents in insertion order
    dbOpen,          \* the sqlite3 connection is open
    mongoOpen,       \* the MongoDB client is open
    exitCode,        \* exit status of the process, -1 while it runs
    hist,            \* history of the current run (and of the one before)
    peer             \* a second process of the script, while the first one runs

src   == <<file, checkLicenses, run>>
loop  == <<ri, row, files, fi>>
build == <<document, vrows, vid>>
count == <<repos_handled, files_handled, commits_handled, duplicate_files, finished>>
api   == <<url, res, ret, t>>
conns == <<dbOpen, mongoOpen, exitCode>>

vars == <<file, checkLicenses, run, pc, ri, row, files, fi, document, vrows, vid, license,
          repos_handled, files_handled, commits_handled, duplicate_files, finished,
          http_requests, url, res, ret, t, mongo, dbOpen, mongoOpen, exitCode, hist,
          peer>>

\* ----------------------------------------------------------------- history
\* built, queried, looked, dups, inserted, failed: the file ids for which this run
\*   has built a document, run the comit query, called find_one, found a duplicate,
\*   called insert_one, got no inserted_id.
\* selected, skipped: the repo ids whose files this run has selected / which it
\*   has skipped for their license.  apiKey: per repo, the license key of the 200
\*   answer with which check_license accepted it in this run (Null when none).
\* reqs, answers, sleeps: the urls requested, the statuses answered and the number
\*   of rate-limit sleeps of the call of check_license that is under way or has
\*   just returned.  http0: http_requests when that call began.  now: the
\*   time.time() that handle_rate_limit_error has read for the sleep under way
\*   (<<>> when it has read none).
\* prevSelected, prevFailed, prevComplete: what the runs before did.
NoKeys == [r \in Repos |-> Null]

NewHist(prevSel, prevFail, prevCompl) ==
    [built |-> {}, queried |-> {}, looked |-> {}, dups |-> {}, inserted |-> {},
     failed |-> {}, selected |-> {}, skipped |-> {}, apiKey |-> NoKeys,
     reqs |-> <<>>, answers |-> <<>>, sleeps |-> 0, http0 |-> 0, now |-> <<>>,
     prevSelected |-> prevSel, prevFailed |-> prevFail, prevComplete |-> prevCompl]

\* ------------------------------------------------------------------- Init
\* Lines 88-103: the globals as the script sets them before the main loop.
Globals ==
    /\ pc = "next_repo"
    /\ ri = 0 /\ row = 0 /\ files = <<>> /\ fi = 0
    /\ document = NoDoc /\ vrows = <<>> /\ vid = 0 /\ license = ""
    /\ repos_handled = 0 /\ files_handled = 0 /\ commits_handled = 0
    /\ duplicate_files = 0 /\ finished = 0 /\ http_requests = 0
    /\ url = NoUrl /\ res = NoRes /\ ret = NoRes /\ t = 0
    /\ dbOpen = TRUE /\ mongoOpen = TRUE /\ exitCode = -1

\* The first run starts on an empty collection, over any file table of Rows.
InitOver(Rows) ==
    /\ file \in [FileIds -> Rows]
    /\ \A f \in FileIds : file[f].path \in PathsOf(f)
    /\ checkLicenses \in BOOLEAN
    /\ run = 1
    /\ mongo = <<>>
    /\ hist = NewHist({}, FALSE, TRUE)
    /\ Globals

\* No second process.
NoPeer == [pc |-> "none"]

Init == InitOver(FileRows) /\ peer = NoPeer

\* For the behaviours of several runs: files of at most one version.
ShortFileRows == { f \in FileRows : Len(f.comits) <= 1 }
InitRuns == InitOver(ShortFileRows) /\ peer = NoPeer

\* ---------------------------------------------------------------- helpers
Hist(f, v) == [hist EXCEPT ![f] = v]
Add(f, x)  == [hist EXCEPT ![f] = @ \cup {x}]

\* The file ids of a repository in table order:
\* SELECT file_id, name, path, sha FROM file WHERE repo_id = ?
RECURSIVE FilesFrom(_, _)
FilesFrom(r, i) ==
    IF i > MaxFiles THEN <<>>
    ELSE (IF file[i].repo_id = r THEN <<i>> ELSE <<>>) \o FilesFrom(r, i + 1)
FilesOf(r) == FilesFrom(r, 1)

\* Variant: path.startswith('.json')
check_file_extension_start(path) == Len(path) > 0 /\ path[1] = ".json"

\* path.endswith('.json')
check_file_extension(path) == Len(path) > 0 /\ path[Len(path)] = ".json"

\* (IsAnyOrder is the variant of the query without ORDER BY.)
\* SELECT ... FROM comit WHERE file_id = ? ORDER BY created: the rows of the file
\* (each named by its place in the table) in an order of ascending created; rows
\* with equal created come in an order the query does not fix.
IsAnyOrder(c, p) == \A i, j \in DOMAIN p : i # j => p[i] # p[j]
IsOrderedByCreated(c, p) ==
    /\ \A i, j \in DOMAIN p : i # j => p[i] # p[j]
    /\ \A i, j \in DOMAIN p : i < j => c[p[i]] <= c[p[j]]
OrderByCreated(c) ==
    { p \in [DOMAIN c -> DOMAIN c] : IsOrderedByCreated(c, p) }

\* Variant: the query names the field "repo_id", which no document has.
MatchesTopLevelRepoId(d, r, sha) ==
    "repo_id" \in DOMAIN d /\ d.repo_id = r /\ d.sha = sha

\* Variant: the query names the sha alone.
MatchesShaOnly(d, r, sha) == d.sha = sha

\* mongo_collection.find_one({"repo.repo_id": row[0], "sha": f_sha})
Matches(d, r, sha) == d.repo.repo_id = r /\ d.sha = sha
find_one(r, sha) == \E i \in DOMAIN mongo : Matches(mongo[i].doc, r, sha)

\* The current file of the file loop.
CurFile == files[fi]

\* ------------------------------------------------------- the GitHub client
\* handle_rate_limit_error, lines 215-219: the seconds to sleep.
\* max(0, x)
Max0(x) == IF x > 0 THEN x ELSE 0

\* int(x) of a float x given in ticks: the whole seconds, rounded towards zero.
IntOfTicks(x) ==
    IF x >= 0 THEN x \div TicksPerSecond ELSE -((-x) \div TicksPerSecond)

\* Variant: t = int(int(t) - time.time()), without max(0, ...).
WaitSecondsNoMax(reset, retry, now) ==
    IF reset # <<>> THEN IntOfTicks(reset[1] * TicksPerSecond - now)
    ELSE IF retry # <<>> THEN retry[1] ELSE DefaultRetryAfter

\* reset, retry: the two headers, in seconds; now: time.time(), in ticks.
WaitSeconds(reset, retry, now) ==
    IF reset # <<>> THEN Max0(IntOfTicks(reset[1] * TicksPerSecond - now))
    ELSE IF retry # <<>> THEN retry[1] ELSE DefaultRetryAfter

\* signal_handler, lines 179-187.  db.commit() on a closed connection raises
\* sqlite3.ProgrammingError: the handler ends there, with a traceback (status 1).
signal_handler ==
    IF dbOpen
    THEN /\ dbOpen' = FALSE /\ mongoOpen' = FALSE
         /\ exitCode' = 0 /\ pc' = "exited"
    ELSE /\ exitCode' = 1 /\ pc' = "exited"
         /\ UNCHANGED <<dbOpen, mongoOpen>>

\* 'https://api.github.com/repos/' + row[2]
RepoUrl(r) == <<"https://api.github.com/repos/">> \o full_name(r)

\* The answers of the remote to one request.  The body of an answer other than
\* 200 and the rate-limit headers of an answer other than 403 are not read.
Responses(u) ==
    [status : {200}, url : {u}, license : ApiLicenses, reset : {<<>>}, retry : {<<>>}]
    \cup [status : {404}, url : {u}, license : {Null}, reset : {<<>>}, retry : {<<>>}]
    \cup [status : {403}, url : {u}, license : {Null}, reset : ResetTimes,
          retry : RetryAfters]

\* Variant: a request that cannot reach the host is sent again.
GetConnectionErrorRetry ==
    /\ pc = "get"
    /\ hist' = Hist("reqs", Append(hist.reqs, url))
    /\ UNCHANGED <<src, peer, loop, build, license, count, http_requests, api, mongo, conns,
                   pc>>

\* get, lines 200-205: the request cannot reach the host.
GetConnectionError ==
    /\ pc = "get"
    /\ signal_handler
    /\ hist' = Hist("reqs", Append(hist.reqs, url))
    /\ UNCHANGED <<src, peer, loop, build, license, count, http_requests, api, mongo>>

\* Variant: every answer other than 403 is returned as it is.
GetReturnAny(r) == r

\* get, lines 206-212, for an answer other than 403: return 0 or the response.
GetReturn(r) == IF r.status # 200 THEN NoRes ELSE r

GetResponse ==
    /\ pc = "get"
    /\ \E r \in Responses(url) :
        /\ r.status # 403
        /\ http_requests' = http_requests + 1
        /\ ret' = GetReturn(r)
        /\ res' = NoRes
        /\ pc' = "check_license"
        /\ hist' = [hist EXCEPT !.reqs = Append(@, url),
                                 !.answers = Append(@, r.status)]
    /\ UNCHANGED <<src, peer, loop, build, license, count, url, t, mongo, conns>>

\* get, lines 206-208, and handle_rate_limit_error, lines 215-222: the answer is
\* 403; the script computes t and sleeps.  The remote answers 403 to a request
\* only after fewer than n answers 403 to the same url.
GetRateLimitedUpTo(n) ==
    /\ pc = "get"
    /\ hist.sleeps < n
    /\ \E r \in Responses(url), now \in Clock :
        /\ r.status = 403
        /\ http_requests' = http_requests + 1
        /\ res' = r
        /\ t' = WaitSeconds(r.reset, r.retry, now)
        /\ pc' = "rate_limit_sleep"
        /\ hist' = [hist EXCEPT !.reqs = Append(@, url),
                                 !.answers = Append(@, r.status), !.sleeps = @ + 1,
                                 !.now = IF r.reset # <<>> THEN <<now>> ELSE <<>>]
    /\ UNCHANGED <<src, peer, loop, build, license, count, url, ret, mongo, conns>>

GetRateLimited == GetRateLimitedUpTo(Max403)

\* The frames on the interpreter's stack when get runs for the retry after k
\* answers 403: the module, check_license, get, and handle_rate_limit_error and
\* get once more for every 403 (lines 208 and 224 are calls, not a loop).
FramesOfGet(k) == 3 + 2 * k

\* Variant: the retry asks for the root of the API.
RetryUrlRoot(r) == <<Head(r.url)>>

\* handle_rate_limit_error, lines 223-224: the sleep is over, get(res.url).
RetryUrl(r) == r.url

RetryAfterSleep ==
    /\ pc = "rate_limit_sleep"
    /\ FramesOfGet(hist.sleeps) <= RecursionLimit
    /\ url' = RetryUrl(res)
    /\ res' = NoRes
    /\ t' = 0
    /\ pc' = "get"
    /\ hist' = Hist("now", <<>>)
    /\ UNCHANGED <<src, peer, loop, build, license, count, http_requests, ret, mongo,
                   conns>>

\* handle_rate_limit_error, line 224, when the stack is full: the call of get
\* raises RecursionError, which nothing catches; the process ends with a
\* traceback (status 1) and closes neither connection.  (The frames of requests
\* and of update_status bring this about some calls sooner.)
RetryRecursionError ==
    /\ pc = "rate_limit_sleep"
    /\ FramesOfGet(hist.sleeps) > RecursionLimit
    /\ exitCode' = 1
    /\ pc' = "exited"
    /\ UNCHANGED <<src, peer, loop, build, license, count, http_requests, api, mongo,
                   dbOpen, mongoOpen, hist>>

\* Variant: license is assigned without the declaration "global license".
check_license_local(r) ==
    IF r = NoRes THEN [ok |-> FALSE, license |-> license]
    ELSE [ok |-> r.license # Null /\ r.license \in licenses, license |-> license]

\* Variant: a repository without license is not counted as handled.
SkippedHandledNone(n) == n

\* Line 319: repos_handled += 1 for a skipped repository.
SkippedHandled(n) == n + 1

\* check_license, lines 240-247, on the value get returned: the value it returns
\* and the value of the global license after it.
check_license(r) ==
    IF r = NoRes THEN [ok |-> FALSE, license |-> license]
    ELSE IF r.license # Null /\ r.license \in licenses
         THEN [ok |-> TRUE, license |-> r.license]
         ELSE [ok |-> FALSE, license |-> license]

\* Lines 317-320: check_license returned; a repository without license is skipped.
CheckLicenseReturn ==
    /\ pc = "check_license"
    /\ LET c == check_license(ret) IN
        /\ license' = c.license
        /\ IF c.ok
           THEN /\ pc' = "select_files"
                /\ UNCHANGED repos_handled
                /\ hist' = [hist EXCEPT !.apiKey[row] = ret.license,
                                         !.reqs = <<>>, !.answers = <<>>, !.sleeps = 0,
                                         !.http0 = 0]
           ELSE /\ pc' = "next_repo"
                /\ repos_handled' = SkippedHandled(repos_handled)
                /\ hist' = [hist EXCEPT !.skipped = @ \cup {row},
                                         !.reqs = <<>>, !.answers = <<>>, !.sleeps = 0,
                                         !.http0 = 0]
    /\ ret' = NoRes
    /\ UNCHANGED <<src, peer, loop, build, files_handled, commits_handled, duplicate_files,
                   finished, http_requests, url, res, t, mongo, conns>>

\* ------------------------------------------------------------ the main loop
\* Line 309: the next row of repocursor, or the end of the loop.
NextRepo ==
    /\ pc = "next_repo"
    /\ IF ri = NumRepos
       THEN /\ pc' = "close_db"
            /\ UNCHANGED <<loop, url, hist>>
       ELSE /\ ri' = ri + 1
            /\ row' = ri + 1
            /\ UNCHANGED <<files, fi>>
            /\ IF checkLicenses
               THEN /\ pc' = "get"
                    /\ url' = RepoUrl(ri + 1)
                    /\ hist' = Hist("http0", http_requests)
               ELSE /\ pc' = "select_files"
                    /\ UNCHANGED <<url, hist>>
    /\ UNCHANGED <<src, peer, build, license, count, http_requests, res, ret, t, mongo, conns>>

\* Lines 327-329: the files of the repository.
SelectFiles ==
    /\ pc = "select_files"
    /\ files' = FilesOf(row)
    /\ fi' = 0
    /\ pc' = "next_file"
    /\ hist' = Add("selected", row)
    /\ UNCHANGED <<src, peer, ri, row, build, license, count, http_requests, api, mongo, conns>>

\* Variant: line 413 (license = "") is missing.
EndRepoKeepLicense ==
    /\ pc = "next_file"
    /\ fi = Len(files)
    /\ repos_handled' = repos_handled + 1
    /\ pc' = "next_repo"
    /\ UNCHANGED <<src, peer, loop, build, license, files_handled, commits_handled,
                   duplicate_files, finished, http_requests, api, mongo, conns, hist>>

\* Lines 413-416: the file loop is over.
EndRepo ==
    /\ pc = "next_file"
    /\ fi = Len(files)
    /\ license' = ""
    /\ repos_handled' = repos_handled + 1
    /\ pc' = "next_repo"
    /\ UNCHANGED <<src, peer, loop, build, files_handled, commits_handled, duplicate_files,
                   finished, http_requests, api, mongo, conns, hist>>

\* Lines 336-339: a file whose path ends in .json is skipped.
SkipJson ==
    /\ pc = "next_file"
    /\ fi < Len(files)
    /\ check_file_extension(file[files[fi + 1]].path)
    /\ fi' = fi + 1
    /\ UNCHANGED <<src, peer, ri, row, files, build, license, count, http_requests, api,
                   mongo, conns, hist, pc>>

\* Lines 341-356: the document of a file, before its versions.
NewDocument(f, r) ==
    [path |-> file[f].path, sha |-> file[f].sha, language |-> "Solidity",
     license |-> license,
     repo |-> [repo_id |-> r, full_name |-> full_name(r)],
     versions |-> <<>>]

BuildDocument ==
    /\ pc = "next_file"
    /\ fi < Len(files)
    /\ ~check_file_extension(file[files[fi + 1]].path)
    /\ fi' = fi + 1
    /\ document' = NewDocument(files[fi + 1], row)
    /\ pc' = "select_versions"
    /\ hist' = Add("built", files[fi + 1])
    /\ UNCHANGED <<src, peer, ri, row, files, vrows, vid, license, count, http_requests, api,
                   mongo, conns>>

\* Lines 358-363: the comit rows of the file, ordered by created; vid = 0.
SelectVersions ==
    /\ pc = "select_versions"
    /\ \E p \in OrderByCreated(file[CurFile].comits) : vrows' = p
    /\ vid' = 0
    /\ pc' = "versions"
    /\ hist' = Add("queried", CurFile)
    /\ UNCHANGED <<src, peer, loop, document, license, count, http_requests, api, mongo, conns>>

\* Lines 364-376: one turn of the version loop.  A comit row is named by its
\* place in the table, which stands for its sha.
NewVersion(f, rowid, v) ==
    [version_id |-> v, sha |-> rowid, created |-> file[f].comits[rowid]]

AppendVersion ==
    /\ pc = "versions"
    /\ vrows # <<>>
    /\ document' = [document EXCEPT
                      !.versions = Append(@, NewVersion(CurFile, Head(vrows), vid))]
    /\ vrows' = Tail(vrows)
    /\ vid' = vid + 1
    /\ commits_handled' = commits_handled + 1
    /\ UNCHANGED <<src, peer, loop, license, repos_handled, files_handled, duplicate_files,
                   finished, http_requests, api, mongo, conns, hist, pc>>

\* Variant: the guard of lines 383-385 is missing.
HasNoVersionsUnchecked(d) == FALSE

\* Lines 378-385: the version loop is over; a document without versions is dropped.
HasNoVersions(d) == d.versions = <<>>

EndVersions ==
    /\ pc = "versions"
    /\ vrows = <<>>
    /\ files_handled' = files_handled + 1
    /\ pc' = IF HasNoVersions(document) THEN "next_file" ELSE "find_one"
    /\ UNCHANGED <<src, peer, loop, build, license, repos_handled, commits_handled,
                   duplicate_files, finished, http_requests, api, mongo, conns, hist>>

\* Variant: the result of find_one is not tested.
FindOneUntested ==
    /\ pc = "find_one"
    /\ pc' = "insert_one"
    /\ hist' = Add("looked", CurFile)
    /\ UNCHANGED <<src, peer, loop, build, license, count, http_requests, api, mongo, conns>>

\* Lines 393-397: the duplicate check.
FindOne ==
    /\ pc = "find_one"
    /\ IF find_one(row, file[CurFile].sha)
       THEN /\ duplicate_files' = duplicate_files + 1
            /\ pc' = "next_file"
            /\ hist' = [hist EXCEPT !.looked = @ \cup {CurFile}, !.dups = @ \cup {CurFile}]
       ELSE /\ pc' = "insert_one"
            /\ hist' = Add("looked", CurFile)
            /\ UNCHANGED duplicate_files
    /\ UNCHANGED <<src, peer, loop, build, license, repos_handled, files_handled,
                   commits_handled, finished, http_requests, api, mongo, conns>>

\* Variant: insert_one is called twice for the document.
InsertOneTwice ==
    /\ pc = "insert_one"
    /\ mongo' = mongo \o << [doc |-> document, file |-> CurFile, run |-> run],
                             [doc |-> document, file |-> CurFile, run |-> run] >>
    /\ finished' = finished + 1
    /\ document' = NoDoc
    /\ pc' = "next_file"
    /\ hist' = Add("inserted", CurFile)
    /\ UNCHANGED <<src, peer, loop, vrows, vid, license, repos_handled, files_handled,
                   commits_handled, duplicate_files, http_requests, api, conns>>

\* Lines 403-411: insert_one stores the document and returns its inserted_id.
\* A collection entry also records the file and the run it comes from (history).
InsertOne ==
    /\ pc = "insert_one"
    /\ mongo' = Append(mongo, [doc |-> document, file |-> CurFile, run |-> run])
    /\ finished' = finished + 1
    /\ document' = NoDoc
    /\ pc' = "next_file"
    /\ hist' = Add("inserted", CurFile)
    /\ UNCHANGED <<src, peer, loop, vrows, vid, license, repos_handled, files_handled,
                   commits_handled, duplicate_files, http_requests, api, conns>>

\* Variant: an insert_one that returned no inserted_id is called again.
InsertNoIdRetry ==
    /\ pc = "insert_one"
    /\ hist' = [hist EXCEPT !.inserted = @ \cup {CurFile}, !.failed = @ \cup {CurFile}]
    /\ UNCHANGED <<src, peer, loop, build, license, count, http_requests, api, mongo, conns,
                   pc>>

\* Lines 403-411: insert_one returns no inserted_id; nothing is stored.
InsertNoId ==
    /\ pc = "insert_one"
    /\ finished' = finished + 1
    /\ document' = NoDoc
    /\ pc' = "next_file"
    /\ hist' = [hist EXCEPT !.inserted = @ \cup {CurFile}, !.failed = @ \cup {CurFile}]
    /\ UNCHANGED <<src, peer, loop, vrows, vid, license, repos_handled, files_handled,
                   commits_handled, duplicate_files, http_requests, api, mongo, conns>>

\* Lines 419-420: db.commit(), db.close().
CloseDb ==
    /\ pc = "close_db"
    /\ dbOpen' = FALSE
    /\ pc' = "close_mongo"
    /\ UNCHANGED <<src, peer, loop, build, license, count, http_requests, api, mongo,
                   mongoOpen, exitCode, hist>>

\* Line 421: mongo_client.close().
CloseMongo ==
    /\ pc = "close_mongo"
    /\ mongoOpen' = FALSE
    /\ pc' = "report"
    /\ UNCHANGED <<src, peer, loop, build, license, count, http_requests, api, mongo,
                   dbOpen, exitCode, hist>>

\* Lines 423-426: the last messages; the script ends.
Report ==
    /\ pc = "report"
    /\ exitCode' = 0
    /\ pc' = "done"
    /\ UNCHANGED <<src, peer, loop, build, license, count, http_requests, api, mongo,
                   dbOpen, mongoOpen, hist>>

\* Line 189: SIGINT while the script runs.
Interrupt ==
    /\ pc \notin {"done", "exited"}
    /\ signal_handler
    /\ UNCHANGED <<src, peer, loop, build, license, count, http_requests, api, mongo, hist>>

\* The script is started again over the same sqlite3 file and the same collection.
Restart ==
    /\ pc \in {"done", "exited"}
    /\ run < MaxRuns
    /\ run' = run + 1
    /\ hist' = NewHist(hist.selected, hist.prevFailed \/ hist.failed # {},
                       hist.prevComplete /\ pc = "done")
    /\ pc' = "next_repo"
    /\ ri' = 0 /\ row' = 0 /\ files' = <<>> /\ fi' = 0
    /\ document' = NoDoc /\ vrows' = <<>> /\ vid' = 0 /\ license' = ""
    /\ repos_handled' = 0 /\ files_handled' = 0 /\ commits_handled' = 0
    /\ duplicate_files' = 0 /\ finished' = 0 /\ http_requests' = 0
    /\ url' = NoUrl /\ res' = NoRes /\ ret' = NoRes /\ t' = 0
    /\ dbOpen' = TRUE /\ mongoOpen' = TRUE /\ exitCode' = -1
    /\ UNCHANGED <<file, checkLicenses, mongo, peer>>

\* One run of the script.  (With at most Max403 answers 403 in a row the stack
\* stays far below RecursionLimit: RetryRecursionError is no step of such a run.)
Next ==
    \/ NextRepo \/ GetConnectionError \/ GetResponse \/ GetRateLimited
    \/ RetryAfterSleep \/ CheckLicenseReturn \/ SelectFiles \/ EndRepo \/ SkipJson
    \/ BuildDocument \/ SelectVersions \/ AppendVersion \/ EndVersions \/ FindOne
    \/ InsertOne \/ InsertNoId \/ CloseDb \/ CloseMongo \/ Report \/ Interrupt

Spec == Init /\ [][Next]_vars

\* Successive runs of the script.
NextRuns == Next \/ Restart

SpecRuns == InitRuns /\ [][NextRuns]_vars

\* One run without interrupt and without a request that cannot reach the host.
NextFair ==
    \/ NextRepo \/ GetResponse \/ GetRateLimited \/ RetryAfterSleep
    \/ CheckLicenseReturn \/ SelectFiles \/ EndRepo \/ SkipJson \/ BuildDocument
    \/ SelectVersions \/ AppendVersion \/ EndVersions \/ FindOne \/ InsertOne
    \/ InsertNoId \/ CloseDb \/ CloseMongo \/ Report

\* The script is one sequential process: while a statement is left it runs it.
SpecFair == InitRuns /\ [][NextFair]_vars /\ WF_vars(NextFair)

\* One run with the license check against a remote that answers 403 to every
\* request, without interrupt and without a request that cannot reach the host.
\* The files are never reached: the file table has no comit rows.
InitThrottled ==
    /\ InitOver({ f \in FileRows : f.comits = <<>> })
    /\ checkLicenses
    /\ peer = NoPeer

NextThrottled ==
    \/ NextRepo \/ GetRateLimitedUpTo(RecursionLimit) \/ RetryAfterSleep
    \/ RetryRecursionError

SpecThrottled == InitThrottled /\ [][NextThrottled]_vars

\* ------------------------------------------------ two processes of the script
\* The state of one process: its globals, its position, its two connections
\* and its history.  The sqlite3 file and the collection belong to both.
Locals ==
    [run |-> run, pc |-> pc, ri |-> ri, row |-> row, files |-> files, fi |-> fi,
     document |-> document, vrows |-> vrows, vid |-> vid, license |-> license,
     repos_handled |-> repos_handled, files_handled |-> files_handled,
     commits_handled |-> commits_handled, duplicate_files |-> duplicate_files,
     finished |-> finished, http_requests |-> http_requests, url |-> url,
     res |-> res, ret |-> ret, t |-> t, dbOpen |-> dbOpen, mongoOpen |-> mongoOpen,
     exitCode |-> exitCode, hist |-> hist]

\* Lines 88-171: a process that has connected and is about to enter the main
\* loop, as run n of the script.
StartLocals(n) ==
    [run |-> n, pc |-> "next_repo", ri |-> 0, row |-> 0, files |-> <<>>, fi |-> 0,
     document |-> NoDoc, vrows |-> <<>>, vid |-> 0, license |-> "",
     repos_handled |-> 0, files_handled |-> 0, commits_handled |-> 0,
     duplicate_files |-> 0, finished |-> 0, http_requests |-> 0, url |-> NoUrl,
     res |-> NoRes, ret |-> NoRes, t |-> 0, dbOpen |-> TRUE, mongoOpen |-> TRUE,
     exitCode |-> -1, hist |-> NewHist({}, FALSE, TRUE)]

\* The other process takes the next steps: the two states change places.
Switch ==
    /\ peer # NoPeer
    /\ peer' = Locals
    /\ run' = peer.run /\ pc' = peer.pc
    /\ ri' = peer.ri /\ row' = peer.row /\ files' = peer.files /\ fi' = peer.fi
    /\ document' = peer.document /\ vrows' = peer.vrows /\ vid' = peer.vid
    /\ license' = peer.license
    /\ repos_handled' = peer.repos_handled /\ files_handled' = peer.files_handled
    /\ commits_handled' = peer.commits_handled
    /\ duplicate_files' = peer.duplicate_files /\ finished' = peer.finished
    /\ http_requests' = peer.http_requests
    /\ url' = peer.url /\ res' = peer.res /\ ret' = peer.ret /\ t' = peer.t
    /\ dbOpen' = peer.dbOpen /\ mongoOpen' = peer.mongoOpen
    /\ exitCode' = peer.exitCode
    /\ hist' = peer.hist
    /\ UNCHANGED <<file, checkLicenses, mongo>>

\* Two processes of the script, started without --check-repo-license over the
\* same sqlite3 file, against the same collection, which is empty.
InitTwo ==
    /\ InitOver(ShortFileRows)
    /\ ~checkLicenses
    /\ peer = StartLocals(2)

\* A step of the process in turn, or the other process comes in turn.  Neither
\* sends a request.
NextTwo ==
    \/ NextRepo \/ SelectFiles \/ EndRepo \/ SkipJson \/ BuildDocument
    \/ SelectVersions \/ AppendVersion \/ EndVersions \/ FindOne \/ InsertOne
    \/ InsertNoId \/ CloseDb \/ CloseMongo \/ Report \/ Interrupt \/ Switch

SpecTwo == InitTwo /\ [][NextTwo]_vars

\* ================================================================== claims
\* A file the script is to migrate: its path does not end in .json and it has
\* at least one comit row.
EndsInJson(f) == file[f].path[Len(file[f].path)] = ".json"
Eligible(f)   == ~EndsInJson(f) /\ file[f].comits # <<>>

\* ---- C1
\* C1 as stated: at the end of a second complete run after a first complete run,
\* the second run has called insert_one for no file, and every file for which it
\* called find_one was found to be a duplicate.
C1_Original ==
    (run = 2 /\ hist.prevComplete /\ pc = "done")
        => (hist.inserted = {} /\ hist.looked \subseteq hist.dups)

\* C1 (amended): in a run that follows complete runs in which every insert_one
\* returned an inserted_id, as long as the run has selected the files only of
\* repositories whose files the run before selected too (always so without the
\* license check), the run has called insert_one for no file, the collection is
\* as the runs before left it, and every file for which it called find_one was
\* found to be a duplicate.
C1_SecondRunInsertsNothing ==
    (run >= 2 /\ hist.prevComplete /\ ~hist.prevFailed
        /\ hist.selected \subseteq hist.prevSelected)
        => /\ hist.inserted = {}
           /\ hist.looked \subseteq hist.dups
           /\ \A i \in DOMAIN mongo : mongo[i].run < run

C1_Witness ==
    /\ run = 2 /\ hist.prevComplete /\ ~hist.prevFailed
    /\ hist.selected \subseteq hist.prevSelected
    /\ pc = "done"
    /\ checkLicenses
    /\ hist.dups # {}
    /\ Len(mongo) = Cardinality(hist.dups)

\* ---- C2
\* C2: a file without comit rows is never passed to find_one or insert_one, in
\* any run, and no document of the collection has an empty versions list.
C2_NoEmptyDocument ==
    /\ \A f \in FileIds : file[f].comits = <<>> =>
            f \notin (hist.looked \cup hist.inserted)
    /\ \A i \in DOMAIN mongo : mongo[i].doc.versions # <<>>

\* A file without comit rows has gone through the version loop and was dropped,
\* in a second run, after a file of the same repository was inserted.
C2_Witness ==
    /\ run = 2
    /\ pc = "next_file"
    /\ fi > 0
    /\ file[CurFile].comits = <<>>
    /\ CurFile \in hist.queried
    /\ hist.inserted # {}

\* ---- C3
\* C3 as stated: after a complete run on an empty collection, without license
\* check and with every insert_one returning an inserted_id, the collection
\* holds exactly one document for every file to migrate, and no other.
C3_OneDocumentPerFile ==
    (pc = "done" /\ ~checkLicenses /\ hist.failed = {})
        => /\ Len(mongo) = Cardinality({f \in FileIds : Eligible(f)})
           /\ \A f \in FileIds : Eligible(f) =>
                  Cardinality({i \in DOMAIN mongo : mongo[i].file = f}) = 1

\* ---- C4
\* C4: the duplicate check matches on the pair (repo_id, sha).  A file is found
\* to be a duplicate only when the collection holds a document of its own
\* repository with its sha.  After a complete run on an empty collection without
\* license check, for two files to migrate that have the same sha in different
\* repositories, insert_one was called for a file of either repository with that
\* sha, and the collection holds a separate document for either pair unless an
\* insert_one returned no inserted_id.
HasDocument(r, sha) ==
    \E i \in DOMAIN mongo :
        mongo[i].doc.repo.repo_id = r /\ mongo[i].doc.sha = sha
InsertCalled(r, sha) ==
    \E h \in hist.inserted : file[h].repo_id = r /\ file[h].sha = sha

C4_KeyIsThePair ==
    /\ \A f \in hist.dups : HasDocument(file[f].repo_id, file[f].sha)
    /\ (pc = "done" /\ ~checkLicenses) =>
         \A f, g \in FileIds :
            (Eligible(f) /\ Eligible(g) /\ file[f].repo_id # file[g].repo_id
                /\ file[f].sha = file[g].sha)
            => /\ InsertCalled(file[f].repo_id, file[f].sha)
               /\ InsertCalled(file[g].repo_id, file[g].sha)
               /\ hist.failed = {} =>
                     /\ HasDocument(file[f].repo_id, file[f].sha)
                     /\ HasDocument(file[g].repo_id, file[g].sha)
                     /\ Len(mongo) >= 2

\* Two files with one sha in two repositories were both inserted.
C4_Witness ==
    /\ pc = "done" /\ ~checkLicenses /\ hist.failed = {}
    /\ \E f, g \in FileIds :
         /\ Eligible(f) /\ Eligible(g)
         /\ file[f].repo_id # file[g].repo_id /\ file[f].sha = file[g].sha
         /\ hist.inserted = {f, g}
         /\ Len(mongo) = 2
         /\ mongo[1].doc.repo.repo_id # mongo[2].doc.repo.repo_id
         /\ mongo[1].doc.sha = mongo[2].doc.sha

\* ---- C5
\* C5: in every state, also after an interrupt or a connection error, a document
\* of the collection made from a file with N comit rows has N >= 1 versions, the
\* version_id of the k-th is k-1, the versions are the N rows of the file, each
\* once, and their created times ascend along the list.
C5_VersionsComplete ==
    \A i \in DOMAIN mongo :
        LET v == mongo[i].doc.versions
            c == file[mongo[i].file].comits
        IN  /\ mongo[i].doc.path = file[mongo[i].file].path
            /\ Len(c) >= 1
            /\ Len(v) = Len(c)
            /\ \A k \in DOMAIN v : v[k].version_id = k - 1
            /\ \A k \in DOMAIN v : v[k].sha \in DOMAIN c /\ v[k].created = c[v[k].sha]
            /\ \A k, l \in DOMAIN v : k # l => v[k].sha # v[l].sha
            /\ \A k, l \in DOMAIN v : k < l => v[k].created <= v[l].created

\* The run was interrupted in the version loop of a file, after the insert of a
\* document whose comit rows are stored against the order of their times.
C5_Witness ==
    /\ pc = "exited" /\ exitCode = 0
    /\ vrows # <<>> /\ document.versions # <<>>
    /\ Len(mongo) = 1
    /\ file[mongo[1].file].comits = <<2, 1>>

\* ---- C6
\* C6: for a file whose path ends in .json the script builds no document, runs
\* no comit query, calls neither find_one nor insert_one; the step that meets
\* the file leaves the counters finished and duplicate_files (and the
\* collection) as they are and goes on to the next file.
AtJsonFile ==
    pc = "next_file" /\ fi < Len(files) /\ EndsInJson(files[fi + 1])

C6_JsonNeverHandled ==
    \A f \in FileIds : EndsInJson(f) =>
        f \notin (hist.built \cup hist.queried \cup hist.looked \cup hist.dups
                    \cup hist.inserted)

C6_JsonStep ==
    (AtJsonFile /\ pc' # "exited")
        => /\ pc' = "next_file" /\ fi' = fi + 1
           /\ UNCHANGED <<finished, duplicate_files, files_handled, commits_handled,
                          document, mongo, files, row>>

C6_ExtensionGuard == [](C6_JsonNeverHandled) /\ [][C6_JsonStep]_vars

\* A .json file was skipped and the file after it in the repository was inserted.
C6_Witness ==
    /\ pc = "next_file" /\ fi = 2
    /\ EndsInJson(files[1]) /\ ~EndsInJson(files[2])
    /\ files[2] \in hist.inserted
    /\ finished = 1 /\ duplicate_files = 0

\* ---- C7
\* C7: when get returns to check_license after k answers 403 and one other
\* answer, it has sent k+1 requests, all for the url of the repository, has
\* slept k times (once after each 403, before the next request), http_requests
\* has grown by k+1, and it returns the last answer when its status is 200 and
\* 0 otherwise.
RECURSIVE CountOf(_, _)
CountOf(q, x) ==
    IF q = <<>> THEN 0 ELSE (IF Head(q) = x THEN 1 ELSE 0) + CountOf(Tail(q), x)

FilesOfRepos(R) == { f \in FileIds : file[f].repo_id \in R }

C8_SkippedUntouched ==
    /\ hist.skipped \cap hist.selected = {}
    /\ FilesOfRepos(hist.skipped)
         \cap (hist.built \cup hist.queried \cup hist.looked \cup hist.dups
                 \cup hist.inserted) = {}
    /\ \A i \in DOMAIN mongo : mongo[i].doc.repo.repo_id \notin hist.skipped
    /\ hist.skipped # {} => checkLicenses

C8_SkipStep ==
    (pc = "check_license" /\ ~check_license(ret).ok /\ pc' # "exited")
        => /\ repos_handled' = repos_handled + 1
           /\ pc' = "next_repo"
           /\ ri' = ri
           /\ row \in hist'.skipped
           /\ UNCHANGED <<files_handled, commits_handled, finished, duplicate_files,
                          mongo, files, fi, document>>

C8_AdvanceStep ==
    (pc = "next_repo" /\ ri < NumRepos /\ pc' # "exited")
        => ri' = ri + 1 /\ row' = ri + 1

C8_LicenseSkip ==
    [](C8_SkippedUntouched) /\ [][C8_SkipStep]_vars /\ [][C8_AdvanceStep]_vars

\* The first repository has a file to migrate and was skipped; the run went on
\* and inserted a file of the second.
C8_Witness ==
    /\ pc = "done"
    /\ hist.skipped = {1}
    /\ \E f \in FileIds : file[f].repo_id = 1 /\ Eligible(f)
    /\ hist.inserted # {}
    /\ repos_handled = NumRepos

\* ---- C9
\* C9: when the last answer to a call of get is neither 200 nor 403, get has
\* returned 0; the step of check_license that follows sends no request, leaves
\* the license as it is (the empty string), records no verdict and skips the
\* repository.
FailedAnswer ==
    /\ pc = "check_license"
    /\ hist.answers # <<>>
    /\ hist.answers[Len(hist.answers)] \notin {200, 403}

C9_Sentinel == FailedAnswer => (ret = NoRes /\ license = "")

C9_FailStep ==
    (FailedAnswer /\ pc' # "exited")
        => /\ pc' = "next_repo"
           /\ license' = license
           /\ http_requests' = http_requests
           /\ hist'.apiKey = hist.apiKey
           /\ row \in hist'.skipped

C9_NoRequestAfter ==
    (pc = "check_license" /\ pc' # "exited") => pc' # "get"

C9_NonRetryableFailure ==
    [](C9_Sentinel) /\ [][C9_FailStep]_vars /\ [][C9_NoRequestAfter]_vars

\* get has returned 0 for a 404 answer to the retry after a 403.
C9_Witness ==
    /\ FailedAnswer
    /\ hist.answers = <<403, 404>>
    /\ ret = NoRes
    /\ http_requests = hist.http0 + 2

\* ---- C10
\* C10: every document of the collection carries the license of its repository
\* for this run: the empty string without the license check (and then no request
\* is ever sent), and with it the key of the allow-list that the 200 answer for
\* that very repository gave.
C10_LicenseOfOwnRepo ==
    /\ ~checkLicenses =>
         /\ http_requests = 0 /\ hist.reqs = <<>> /\ license = ""
         /\ \A i \in DOMAIN mongo : mongo[i].doc.license = ""
    /\ checkLicenses =>
         \A i \in DOMAIN mongo :
            /\ mongo[i].doc.license = hist.apiKey[mongo[i].doc.repo.repo_id]
            /\ mongo[i].doc.license \in licenses
    /\ \A i \in DOMAIN mongo :
         mongo[i].doc.repo.repo_id = file[mongo[i].file].repo_id

\* Two repositories with two licenses, a document of each.
C10_Witness ==
    /\ checkLicenses
    /\ Len(mongo) = 2
    /\ mongo[1].doc.repo.repo_id # mongo[2].doc.repo.repo_id
    /\ mongo[1].doc.license # mongo[2].doc.license
    /\ pc = "done"

\* ---- C11
\* C11: a request that cannot reach the host (requests.ConnectionError) ends the
\* run: the step that records the unanswered request goes to the end of the
\* process with both connections closed, counts no request and stores nothing;
\* from then on no step is taken, so no request, find_one or insert_one follows;
\* and an unanswered request is only ever seen in a process that has ended with
\* both connections closed.
ConnectivityFailed == Len(hist.reqs) > Len(hist.answers)

C11_Shutdown == ConnectivityFailed => (pc = "exited" /\ ~dbOpen /\ ~mongoOpen)

C11_FatalStep ==
    (pc = "get" /\ Len(hist'.reqs) > Len(hist'.answers))
        => /\ pc' = "exited"
           /\ ~dbOpen' /\ ~mongoOpen'
           /\ hist'.reqs = Append(hist.reqs, url)
           /\ UNCHANGED <<http_requests, mongo, count>>

C11_NothingAfter ==
    pc = "exited" => UNCHANGED <<pc, http_requests, mongo, hist>>

C11_ConnectivityFailureIsFatal ==
    [](C11_Shutdown) /\ [][C11_FatalStep]_vars /\ [][C11_NothingAfter]_vars

\* The retry after a 403 answer for the second repository could not reach the
\* host, after a document of the first repository was inserted.
C11_Witness ==
    /\ ConnectivityFailed
    /\ pc = "exited"
    /\ hist.answers = <<403>>
    /\ Len(hist.reqs) = 2
    /\ row = 2
    /\ mongo # <<>>
    /\ ~dbOpen /\ ~mongoOpen

\* ---- C12
\* C12: a process that has ended has a non-zero exit status exactly when the run
\* ended in a fatal class.  A run that has reached the main loop has passed both
\* connects (lines 146-163), so the one fatal class left to it is a request that
\* could not reach the host; an interrupt, a failed insert, a skipped repository,
\* a .json file, a file without versions and a duplicate leave the status at 0.
C12_ExitStatus ==
    pc \in {"done", "exited"} => (exitCode # 0 <=> ConnectivityFailed)

\* ---- C13
\* C13: a process that an interrupt has ended (it has ended before the last line
\* of the script and not by a request that could not reach the host) has both
\* connections closed and the exit status 0 of a handler that ran to its end,
\* wherever the interrupt came: in the loops, in a sleep, between find_one and
\* insert_one, or after db.close().
Interrupted == pc = "exited" /\ ~ConnectivityFailed

C13_OrderlyShutdown ==
    Interrupted => (~dbOpen /\ ~mongoOpen /\ exitCode = 0)

\* ---- C14
\* C14: an insert_one that stores nothing (no inserted_id) is recorded as failed
\* and the script goes on with the file loop: the connections stay open, the
\* process does not end and the next step of the file loop takes the next file
\* of the list; insert_one is called at most once for a file in a run.
C14_OneAttempt == pc = "insert_one" => CurFile \notin hist.inserted

C14_FailStep ==
    (pc = "insert_one" /\ pc' # "exited" /\ mongo' = mongo)
        => /\ CurFile \in hist'.failed
           /\ pc' = "next_file"
           /\ UNCHANGED <<files, fi, ri, row>>
           /\ dbOpen' /\ mongoOpen' /\ exitCode' = -1

C14_NextFileStep ==
    (pc = "next_file" /\ fi < Len(files) /\ pc' # "exited")
        => fi' = fi + 1 /\ files' = files

C14_InsertFailure ==
    [](C14_OneAttempt) /\ [][C14_FailStep]_vars /\ [][C14_NextFileStep]_vars

\* The insert of the first file of a repository failed; the run went on, inserted
\* the second file of that repository and came to its end.
C14_Witness ==
    /\ pc = "done"
    /\ hist.failed = {1}
    /\ hist.inserted = {1, 2}
    /\ file[1].repo_id = file[2].repo_id
    /\ Len(mongo) = 1 /\ mongo[1].file = 2

\* ---- C15
\* C15, first part: a run without interrupt and without a request that cannot
\* reach the host, in which the remote answers every url other than 403 after at
\* most Max403 answers 403, comes to its end with every repository handled and
\* both connections closed.
C15_Terminates ==
    <>(pc = "done" /\ repos_handled = NumRepos /\ ~dbOpen /\ ~mongoOpen
         /\ exitCode = 0)

\* C15, second part: while the remote answers 403 to every request, the script
\* does not give up: the process has not ended, and once it has sent the first
\* request it is about to send the next one or sleeps before it.
C15_NeverGivesUp ==
    /\ pc # "exited"
    /\ hist.answers # <<>> => pc \in {"get", "rate_limit_sleep"}

\* ---- C16
\* C16: the global license is the empty string whenever the main loop is about
\* to take a repository and while check_license has not yet accepted it: the
\* repository before was skipped (license never set), or its file loop ended
\* and line 413 reset the license.
C16_LicenseEmptyAtStart ==
    pc \in {"next_repo", "get", "rate_limit_sleep", "check_license"} => license = ""

\* The first repository was accepted with the license mit and a document with
\* that license was inserted; the main loop is about to take the second.
C16_Witness ==
    /\ pc = "next_repo"
    /\ ri = 1
    /\ hist.apiKey[1] = "mit"
    /\ Len(mongo) = 1 /\ mongo[1].doc.license = "mit"
    /\ license = ""

\* ---- C17
\* C17 as stated: while the script sleeps after a 403 answer, t is exactly
\* max(0, reset - now) when the answer has X-RateLimit-Reset, whatever its
\* Retry-After; else the value of Retry-After when it has one; else 60; and t is
\* not negative.
C17_Original ==
    pc = "rate_limit_sleep" =>
        /\ t >= 0
        /\ res.reset # <<>> =>
              /\ hist.now # <<>>
              /\ t * TicksPerSecond
                   = Max0(res.reset[1] * TicksPerSecond - hist.now[1])
        /\ (res.reset = <<>> /\ res.retry # <<>>) => t = res.retry[1]
        /\ (res.reset = <<>> /\ res.retry = <<>>) => t = 60

\* C17, amended: with X-RateLimit-Reset, t is max(0, reset - now) cut down to
\* whole seconds (at most max(0, reset - now), and less than one second below
\* it); the rest as stated.
C17_WaitSeconds ==
    pc = "rate_limit_sleep" =>
        /\ t >= 0
        /\ res.reset # <<>> =>
              /\ hist.now # <<>>
              /\ LET d == Max0(res.reset[1] * TicksPerSecond - hist.now[1]) IN
                    /\ t * TicksPerSecond <= d
                    /\ d < (t + 1) * TicksPerSecond
        /\ (res.reset = <<>> /\ res.retry # <<>>) => t = res.retry[1]
        /\ (res.reset = <<>> /\ res.retry = <<>>) => t = 60

\* The answer has both headers and its reset time lies 1.5 s ahead: the script
\* sleeps 1 s, neither the 5 s of Retry-After nor 1.5 s.
C17_Witness ==
    /\ pc = "rate_limit_sleep"
    /\ res.reset = <<3>> /\ res.retry = <<5>>
    /\ hist.now = <<TicksPerSecond + 1>>
    /\ t = 1

\* ---- C18
\* C18: at every point of a run, finished is the number of documents the run has
\* stored in the collection (which was empty when the run began); a file whose
\* insert failed, that is a duplicate, has no versions or is a .json file adds
\* nothing to it.
C18_UploadedCounter == finished = Len(mongo)

\* ---- C19
\* C19: over successive runs that start on an empty collection which the script
\* alone writes, no two documents of the collection have the same repo.repo_id
\* and sha; the script is at insert_one only straight after a find_one, for the
\* repo_id and sha of the document it is about to insert, and no document of the
\* collection has that pair; the collection changes only by that insert.
SamePair(d, r, sha) == d.repo.repo_id = r /\ d.sha = sha

C19_UniqueKeys ==
    \A i, j \in DOMAIN mongo :
        i # j => ~SamePair(mongo[i].doc, mongo[j].doc.repo.repo_id, mongo[j].doc.sha)

C19_LookupFoundNothing ==
    pc = "insert_one" =>
        /\ document.repo.repo_id = row /\ document.sha = file[CurFile].sha
        /\ CurFile \in hist.looked
        /\ \A i \in DOMAIN mongo : ~SamePair(mongo[i].doc, row, document.sha)

C19_InsertStep ==
    /\ pc' = "insert_one" => pc \in {"find_one", "insert_one"}
    /\ mongo' # mongo => (pc = "insert_one" /\ mongo' = Append(mongo, mongo'[Len(mongo')])
                            /\ mongo'[Len(mongo')].doc = document)

C19_KeyUniqueness ==
    [](C19_UniqueKeys) /\ [](C19_LookupFoundNothing) /\ [][C19_InsertStep]_vars

\* The second run found a document of the first run as a duplicate and inserted
\* another document beside it.
C19_Witness ==
    /\ run = 2 /\ pc = "done"
    /\ Len(mongo) = 2
    /\ mongo[1].run = 1 /\ mongo[2].run = 2
    /\ hist.dups # {}

\* ---- C20
\* C20: with two processes of the script at work on one collection, find_one and
\* insert_one of one process are two steps between which the other process can
\* insert: each process still inserts only a document for which its own find_one
\* found nothing, and never two documents with the same repo.repo_id and sha,
\* so that two documents with the same pair are always one of each process
\* (C20_Witness is the state the claim says can be reached).
HistOf(n) == IF run = n THEN hist ELSE peer.hist

C20_OnePerProcess ==
    \A i, j \in DOMAIN mongo :
        (i # j /\ SamePair(mongo[i].doc, mongo[j].doc.repo.repo_id, mongo[j].doc.sha))
            => mongo[i].run # mongo[j].run

C20_OwnLookupFoundNothing ==
    /\ pc = "insert_one" => CurFile \in hist.looked \ hist.dups
    /\ peer.pc = "insert_one" =>
          peer.files[peer.fi] \in peer.hist.looked \ peer.hist.dups
    /\ \A i \in DOMAIN mongo :
          mongo[i].file \in HistOf(mongo[i].run).looked \ HistOf(mongo[i].run).dups

C20_CheckThenInsert ==
    C20_OnePerProcess /\ C20_OwnLookupFoundNothing

\* Both processes have run to their end, neither has found a duplicate, and the
\* collection holds two documents of one file, one of each process.
C20_Witness ==
    /\ pc = "done" /\ peer.pc = "done"
    /\ duplicate_files = 0 /\ peer.duplicate_files = 0
    /\ Len(mongo) = 2
    /\ mongo[1].file = mongo[2].file
    /\ mongo[1].run # mongo[2].run
    /\ SamePair(mongo[1].doc, mongo[2].doc.repo.repo_id, mongo[2].doc.sha)

====
